---- MODULE Spec2Model ----
(***************************************************************************)
(* Model of SandboxPythonExecute (app/tool/sandbox_python_execute.py):     *)
(* execute() and reset_sandbox() driving the shared SANDBOX_CLIENT.        *)
(*                                                                         *)
(* Every `await` of the source is a suspension point: the code between two *)
(* awaits runs as one step.  An awaited Provider operation is issued by    *)
(* the step that reaches it (pc = the operation) and completed by a        *)
(* separate step that either returns or raises.                            *)
(***************************************************************************)
EXTENDS Integers, Sequences, FiniteSets, TLC

(***************************************************************************)
(* Inputs.                                                                 *)
(***************************************************************************)

\* The callers that may hold a call on the tool.
Callers == {1, 2}

\* The caller of the sequential specification (an agent loop awaits each
\* tool call before issuing the next one).
SeqCallers == {1}

\* Values of the `timeout` parameter (the default, line 64, and a short one).
DefaultTimeout == 30

ShortTimeout == 5

Timeouts == {ShortTimeout, DefaultTimeout}

\* Values of the `install_packages` parameter: strings, as sequences of
\* characters.  "", "a", "a,b", "b, a", "a,a", " ,".
PackageStrings ==
    { <<>>,
      <<"a">>,
      <<"a", ",", "b">>,
      <<"b", ",", " ", "a">>,
      <<"a", ",", "a">>,
      <<" ", ",">> }

\* The requests of execute(): code is identified with the caller that sent it.
Requests(c) ==
    [ api : {"execute"},
      code : {c},
      timeout : Timeouts,
      install_packages : PackageStrings,
      allow_network : BOOLEAN,
      auto_terminate : BOOLEAN ]

\* The request of reset_sandbox() (no inputs).
ResetRequest == [ api |-> "reset" ]

NoRequest == [ api |-> "none" ]

(***************************************************************************)
(* String and list helpers of execute(), lines 95-102.                     *)
(***************************************************************************)

\* str.split(","): the pieces between the commas, at least one piece.
RECURSIVE SplitFrom(_, _, _, _)
SplitFrom(s, i, cur, acc) ==
    IF i > Len(s) THEN Append(acc, cur)
    ELSE IF s[i] = "," THEN SplitFrom(s, i + 1, <<>>, Append(acc, cur))
    ELSE SplitFrom(s, i + 1, Append(cur, s[i]), acc)

Split(s) == SplitFrom(s, 1, <<>>, <<>>)

\* str.strip(): leading and trailing blanks removed.
RECURSIVE LStrip(_)
LStrip(w) == IF w # <<>> /\ Head(w) = " " THEN LStrip(Tail(w)) ELSE w

RECURSIVE RStrip(_)
RStrip(w) ==
    IF w # <<>> /\ w[Len(w)] = " " THEN RStrip(SubSeq(w, 1, Len(w) - 1)) ELSE w

Strip(w) == RStrip(LStrip(w))

\* [pkg.strip() for pkg in install_packages.split(",") if pkg.strip()]
ParsePackages(s) ==
    LET pieces == Split(s)
        stripped == [ i \in 1..Len(pieces) |-> Strip(pieces[i]) ]
    IN  SelectSeq(stripped, LAMBDA w : w # <<>>)

InList(p, l) == \E i \in 1..Len(l) : l[i] = p

\* A mutant of PackagesToInstall: the tracking list is not consulted.
PackagesToInstallNoFilter(packages, inst) == packages

\* [pkg for pkg in packages if pkg not in self._installed_packages]
PackagesToInstall(packages, inst) ==
    SelectSeq(packages, LAMBDA p : ~InList(p, inst))

\* `if install_packages:` then `if packages_to_install:` - the batch of the
\* install command, empty when no install command is to be sent.
InstallBatch(s, inst) ==
    IF s = <<>> THEN <<>> ELSE PackagesToInstall(ParsePackages(s), inst)

(***************************************************************************)
(* State.                                                                  *)
(***************************************************************************)

VARIABLES
    sandbox,      \* SANDBOX_CLIENT.sandbox is set (an EnvironmentHandle exists)
    envNetwork,   \* network posture of the live environment
    configNet,    \* config.sandbox.network_enabled, the global sandbox defaults
    installed,    \* SandboxPythonExecute._installed_packages, a list
    envPkgs,      \* names actually present in the live environment
    okPkgs,       \* names of the install commands that completed without
                  \* fault against the live environment
    file,         \* content of execution_script.py in the environment
    pc,           \* per caller: "idle", the Provider operation awaited, or
                  \* "done" (the call returned, the caller holds the result)
    req,          \* per caller: the request of the call
    batch,        \* per caller: packages_to_install of the call
    ops,          \* per caller: Provider events of the call, in order
    ret,          \* per caller: what the call returned (pending while awaited)
    snap,         \* per caller: state observed when the call began
    prev,         \* summary of the call that returned before the call that
                  \* is in progress or done
    wd            \* the wait_for_docker() call of test_sandbox.py

vars == << sandbox, envNetwork, configNet, installed, envPkgs, okPkgs, file,
           pc, req, batch, ops, ret, snap, prev, wd >>

\* timeout=120 of the install command, line 113.
InstallTimeout == 120

NoFault == [ step |-> "none", type |-> "none", mentionsTimeout |-> FALSE ]

NoReturn ==
    [ kind |-> "none", fault |-> NoFault, msgNetwork |-> FALSE,
      envNet |-> FALSE, msgTimeout |-> 0, ranCode |-> 0 ]

NoSnap == [ installed |-> <<>>, sandbox |-> FALSE, configNet |-> FALSE ]

NoSummary ==
    [ api |-> "none", install_packages |-> <<>>, auto_terminate |-> FALSE,
      creates |-> 0, installs |-> 0, installFaults |-> 0,
      sandboxAfter |-> FALSE ]

\* A Provider event of a call: an operation issued, returned or raised.
Event(op, ev) ==
    [ op |-> op, ev |-> ev, pkgs |-> <<>>, timeout |-> 0, net |-> FALSE,
      code |-> 0 ]

Count(log, op, ev) ==
    Cardinality({ i \in DOMAIN log : log[i].op = op /\ log[i].ev = ev })

Names(l) == { l[i] : i \in DOMAIN l }

\* What a completed call of caller c amounted to.
Summary(c) ==
    [ api |-> req[c].api,
      install_packages |->
          IF req[c].api = "execute" THEN req[c].install_packages ELSE <<>>,
      auto_terminate |->
          IF req[c].api = "execute" THEN req[c].auto_terminate ELSE FALSE,
      creates |-> Count(ops[c], "create", "call"),
      installs |-> Count(ops[c], "install", "call"),
      installFaults |-> Count(ops[c], "install", "fault"),
      sandboxAfter |-> sandbox ]

\* wait_for_docker() has not been called.
NoWait ==
    [ pc |-> "idle", max_retries |-> 0, retry_interval |-> 0, i |-> 0,
      checks |-> 0, fails |-> 0, sleeps |-> 0, slept |-> 0,
      last |-> "none", result |-> "none" ]

Init ==
    /\ wd = NoWait
    /\ sandbox = FALSE
    /\ envNetwork = FALSE
    /\ configNet \in BOOLEAN
    /\ installed = <<>>
    /\ envPkgs = {}
    /\ okPkgs = {}
    /\ file = 0
    /\ pc = [ c \in Callers |-> "idle" ]
    /\ req = [ c \in Callers |-> NoRequest ]
    /\ batch = [ c \in Callers |-> <<>> ]
    /\ ops = [ c \in Callers |-> <<>> ]
    /\ ret = [ c \in Callers |-> NoReturn ]
    /\ snap = [ c \in Callers |-> NoSnap ]
    /\ prev = NoSummary

(***************************************************************************)
(* The Sandbox Provider (SANDBOX_CLIENT), as the tool observes it.         *)
(***************************************************************************)

\* The faults an operation of the Provider may raise.  str(e) may or may
\* not contain "timeout", whatever the type of the fault.
Faults(step) ==
    [ step : {step},
      type : CASE step = "create" -> {"ProvisioningError"}
               [] step = "write_file" -> {"FilesystemError"}
               [] step = "cleanup" -> {"CleanupError"}
               [] OTHER -> {"TimeoutError", "CommandError"},
      mentionsTimeout : BOOLEAN ]

\* SANDBOX_CLIENT.sandbox after create() returned.
SandboxAfterCreate == TRUE

\* SANDBOX_CLIENT.sandbox after cleanup() returned.
SandboxAfterCleanup == FALSE

(***************************************************************************)
(* Decisions of execute() and reset_sandbox().                             *)
(***************************************************************************)

\* A mutant of NeedsCreate: every call creates an environment.
NeedsCreateAlways(sb) == TRUE

\* `if not SANDBOX_CLIENT.sandbox:` line 87.
NeedsCreate(sb) == ~sb

\* sandbox_config = config.sandbox; sandbox_config.network_enabled =
\* allow_network: the assignment goes through to the global object.
ConfigNetAfterOverride(r) == r.allow_network

\* A mutant of EnvNetworkAtCreate: the request's flag is not applied, the
\* environment is created with the network off.
EnvNetworkAtCreateOff(r) == FALSE

\* The network flag of the configuration handed to create(), line 92.
EnvNetworkAtCreate(r) == r.allow_network

\* self._installed_packages.extend(packages_to_install), line 116.
InstalledAfterInstall(inst, b) == inst \o b

\* A mutant of InstalledAfterInstallFault: the batch is recorded although
\* the install command raised.
InstalledAfterInstallFaultExtends(inst, b) == inst \o b

\* The install command raised, lines 118-122: the list is left alone.
InstalledAfterInstallFault(inst, b) == inst

\* A mutant of RunTimeout: the run command gets the default budget, whatever
\* the request asks for.
RunTimeoutDefault(r) == DefaultTimeout

\* timeout=timeout of the run command, line 130.
RunTimeout(r) == r.timeout

\* 'Enabled' if allow_network else 'Disabled', line 138.
MessageNetwork(r) == r.allow_network

\* `if "timeout" in error_msg.lower():` lines 149-158.
Classify(f) == IF f.mentionsTimeout THEN "timeout" ELSE "error"

\* A mutant of AutoTerminates: no teardown.
AutoTerminatesNever(r) == FALSE

\* `if auto_terminate:` of the finally clause, line 161.
AutoTerminates(r) == r.auto_terminate

\* A mutant of ResetCleans: cleanup() is called whether or not a sandbox
\* exists.
ResetCleansAlways(sb) == TRUE

\* `if SANDBOX_CLIENT.sandbox:` of reset_sandbox, line 167.
ResetCleans(sb) == sb

\* A mutant of InstalledAfterReset: the list survives the reset.
InstalledAfterResetKeeps == installed

\* cls._installed_packages = [], line 169.
InstalledAfterReset == <<>>

(***************************************************************************)
(* Steps shared by the actions.                                            *)
(***************************************************************************)

AllIdle == \A c \in Callers : pc[c] = "idle"

\* The call of caller c returns res to its caller.
Complete(c, res, log) ==
    /\ pc' = [ pc EXCEPT ![c] = "done" ]
    /\ ret' = [ ret EXCEPT ![c] = res ]
    /\ ops' = [ ops EXCEPT ![c] = log ]

\* The finally clause of execute(), lines 159-162, entered with the result
\* res of the try block: reset_sandbox() awaits cleanup() when a sandbox
\* exists, and the call returns otherwise.
Finally(c, res, log) ==
    IF AutoTerminates(req[c]) /\ ResetCleans(sandbox)
    THEN /\ pc' = [ pc EXCEPT ![c] = "cleanup" ]
         /\ ret' = [ ret EXCEPT ![c] = res ]
         /\ ops' = [ ops EXCEPT ![c] = Append(log, Event("cleanup", "call")) ]
    ELSE Complete(c, res, log)

\* Lines 95-125 up to the next await, with the sandbox in place: the install
\* command is issued when there is something to install, and the write of
\* the code otherwise.
AfterReady(c, r, log) ==
    LET b == InstallBatch(r.install_packages, installed) IN
    /\ batch' = [ batch EXCEPT ![c] = b ]
    /\ IF b # <<>>
       THEN /\ pc' = [ pc EXCEPT ![c] = "install" ]
            /\ ops' = [ ops EXCEPT ![c] = Append(log,
                   [ Event("install", "call") EXCEPT
                       !.pkgs = b, !.timeout = InstallTimeout ]) ]
       ELSE /\ pc' = [ pc EXCEPT ![c] = "write_file" ]
            /\ ops' = [ ops EXCEPT ![c] = Append(log,
                   [ Event("write_file", "call") EXCEPT !.code = r.code ]) ]

\* What a call observes and records as it begins.
Begin(c, r) ==
    /\ pc[c] = "idle"
    /\ req' = [ req EXCEPT ![c] = r ]
    /\ snap' = [ snap EXCEPT ![c] =
           [ installed |-> installed, sandbox |-> sandbox,
             configNet |-> configNet ] ]

\* The result of the except clause, lines 145-158.
Failure(c, f) ==
    [ NoReturn EXCEPT !.kind = Classify(f), !.fault = f,
                      !.msgTimeout = req[c].timeout ]

(***************************************************************************)
(* Actions.                                                                *)
(***************************************************************************)

\* execute() is called: lines 82-92, and on to the first await.
Execute(c, r) ==
    /\ Begin(c, r)
    /\ IF NeedsCreate(sandbox)
       THEN /\ configNet' = ConfigNetAfterOverride(r)
            /\ pc' = [ pc EXCEPT ![c] = "create" ]
            /\ batch' = [ batch EXCEPT ![c] = <<>> ]
            /\ ops' = [ ops EXCEPT ![c] =
                   << [ Event("create", "call") EXCEPT
                          !.net = EnvNetworkAtCreate(r) ] >> ]
       ELSE /\ UNCHANGED configNet
            /\ AfterReady(c, r, <<>>)
    /\ ret' = [ ret EXCEPT ![c] = NoReturn ]
    /\ UNCHANGED << sandbox, envNetwork, installed, envPkgs, okPkgs, file,
                    prev >>
    /\ UNCHANGED wd

\* create() returns: a fresh environment with the posture of its
\* configuration; execute() goes on to the install step.
CreateDone(c) ==
    /\ pc[c] = "create"
    /\ sandbox' = SandboxAfterCreate
    /\ envNetwork' = EnvNetworkAtCreate(req[c])
    /\ envPkgs' = {}
    /\ okPkgs' = {}
    /\ file' = 0
    /\ AfterReady(c, req[c], Append(ops[c], Event("create", "ok")))
    /\ UNCHANGED << configNet, installed, req, ret, snap, prev >>
    /\ UNCHANGED wd

\* create() raises: caught at line 145.
CreateFault(c, f) ==
    /\ pc[c] = "create"
    /\ f \in Faults("create")
    /\ Finally(c, Failure(c, f), Append(ops[c], Event("create", "fault")))
    /\ UNCHANGED << sandbox, envNetwork, configNet, installed, envPkgs,
                    okPkgs, file, req, batch, snap, prev >>
    /\ UNCHANGED wd

\* The install command returns: lines 116-117, then the write is issued.
InstallDone(c) ==
    /\ pc[c] = "install"
    /\ sandbox
    /\ installed' = InstalledAfterInstall(installed, batch[c])
    /\ envPkgs' = envPkgs \cup Names(batch[c])
    /\ okPkgs' = okPkgs \cup Names(batch[c])
    /\ pc' = [ pc EXCEPT ![c] = "write_file" ]
    /\ ops' = [ ops EXCEPT ![c] =
           ops[c] \o << Event("install", "ok"),
                        [ Event("write_file", "call") EXCEPT
                            !.code = req[c].code ] >> ]
    /\ UNCHANGED << sandbox, envNetwork, configNet, file, req, batch, ret,
                    snap, prev >>
    /\ UNCHANGED wd

\* A mutant of InstallFault: without the inner handler the fault reaches the
\* except clause of line 145 and is classified by its text.
InstallFaultUncaught(c, f, part) ==
    /\ pc[c] = "install"
    /\ f \in Faults("install")
    /\ part \subseteq (IF sandbox THEN Names(batch[c]) ELSE {})
    /\ envPkgs' = envPkgs \cup part
    /\ Finally(c, Failure(c, f), Append(ops[c], Event("install", "fault")))
    /\ UNCHANGED << sandbox, envNetwork, configNet, installed, okPkgs, file,
                    req, batch, snap, prev >>
    /\ UNCHANGED wd

\* A mutant of InstallFault: the fault is swallowed without the early
\* return, and execute() goes on to write the code.
InstallFaultContinues(c, f, part) ==
    /\ pc[c] = "install"
    /\ f \in Faults("install")
    /\ part \subseteq (IF sandbox THEN Names(batch[c]) ELSE {})
    /\ envPkgs' = envPkgs \cup part
    /\ pc' = [ pc EXCEPT ![c] = "write_file" ]
    /\ ops' = [ ops EXCEPT ![c] =
           ops[c] \o << Event("install", "fault"),
                        [ Event("write_file", "call") EXCEPT
                            !.code = req[c].code ] >> ]
    /\ UNCHANGED << sandbox, envNetwork, configNet, installed, okPkgs, file,
                    req, batch, ret, snap, prev >>
    /\ UNCHANGED wd

\* The install command raises after the Provider installed the names of
\* part (some, all or none of the batch): lines 118-122, the early return.
InstallFault(c, f, part) ==
    /\ pc[c] = "install"
    /\ f \in Faults("install")
    /\ part \subseteq (IF sandbox THEN Names(batch[c]) ELSE {})
    /\ envPkgs' = envPkgs \cup part
    /\ installed' = InstalledAfterInstallFault(installed, batch[c])
    /\ Finally(c, [ NoReturn EXCEPT !.kind = "install_error", !.fault = f ],
               Append(ops[c], Event("install", "fault")))
    /\ UNCHANGED << sandbox, envNetwork, configNet, okPkgs, file, req, batch,
                    snap, prev >>
    /\ UNCHANGED wd

\* write_file() returns: lines 127-130, the run command is issued.
WriteDone(c) ==
    /\ pc[c] = "write_file"
    /\ sandbox
    /\ file' = req[c].code
    /\ pc' = [ pc EXCEPT ![c] = "run" ]
    /\ ops' = [ ops EXCEPT ![c] =
           ops[c] \o << Event("write_file", "ok"),
                        [ Event("run", "call") EXCEPT
                            !.timeout = RunTimeout(req[c]) ] >> ]
    /\ UNCHANGED << sandbox, envNetwork, configNet, installed, envPkgs,
                    okPkgs, req, batch, ret, snap, prev >>
    /\ UNCHANGED wd

\* write_file() raises: caught at line 145.
WriteFault(c, f) ==
    /\ pc[c] = "write_file"
    /\ f \in Faults("write_file")
    /\ Finally(c, Failure(c, f), Append(ops[c], Event("write_file", "fault")))
    /\ UNCHANGED << sandbox, envNetwork, configNet, installed, envPkgs,
                    okPkgs, file, req, batch, snap, prev >>
    /\ UNCHANGED wd

\* The run command returns: lines 132-143.
RunDone(c) ==
    /\ pc[c] = "run"
    /\ sandbox
    /\ Finally(c,
               [ NoReturn EXCEPT !.kind = "success",
                                 !.msgNetwork = MessageNetwork(req[c]),
                                 !.envNet = envNetwork,
                                 !.msgTimeout = req[c].timeout,
                                 !.ranCode = file ],
               Append(ops[c], Event("run", "ok")))
    /\ UNCHANGED << sandbox, envNetwork, configNet, installed, envPkgs,
                    okPkgs, file, req, batch, snap, prev >>
    /\ UNCHANGED wd

\* A mutant of RunFault: the run command is issued once more after its
\* first fault.
RunFaultRetries(c, f) ==
    /\ pc[c] = "run"
    /\ f \in Faults("run")
    /\ IF Count(ops[c], "run", "call") < 2
       THEN /\ ops' = [ ops EXCEPT ![c] =
                   ops[c] \o << Event("run", "fault"),
                                [ Event("run", "call") EXCEPT
                                    !.timeout = RunTimeout(req[c]) ] >> ]
            /\ UNCHANGED << pc, ret >>
       ELSE Finally(c, Failure(c, f), Append(ops[c], Event("run", "fault")))
    /\ UNCHANGED << sandbox, envNetwork, configNet, installed, envPkgs,
                    okPkgs, file, req, batch, snap, prev >>
    /\ UNCHANGED wd

\* The run command raises (the deadline passed, or the command failed):
\* caught at line 145.
RunFault(c, f) ==
    /\ pc[c] = "run"
    /\ f \in Faults("run")
    /\ Finally(c, Failure(c, f), Append(ops[c], Event("run", "fault")))
    /\ UNCHANGED << sandbox, envNetwork, configNet, installed, envPkgs,
                    okPkgs, file, req, batch, snap, prev >>
    /\ UNCHANGED wd

\* reset_sandbox() is called by a caller: lines 164-170 up to the await.
Reset(c) ==
    /\ Begin(c, ResetRequest)
    /\ batch' = [ batch EXCEPT ![c] = <<>> ]
    /\ IF ResetCleans(sandbox)
       THEN /\ pc' = [ pc EXCEPT ![c] = "cleanup" ]
            /\ ret' = [ ret EXCEPT ![c] = [ NoReturn EXCEPT !.kind = "reset" ] ]
            /\ ops' = [ ops EXCEPT ![c] = << Event("cleanup", "call") >> ]
       ELSE Complete(c, [ NoReturn EXCEPT !.kind = "reset" ], <<>>)
    /\ UNCHANGED << sandbox, envNetwork, configNet, installed, envPkgs,
                    okPkgs, file, prev >>
    /\ UNCHANGED wd

\* cleanup() returns: line 169, and the call (execute() or reset_sandbox())
\* returns.
CleanupDone(c) ==
    /\ pc[c] = "cleanup"
    /\ sandbox' = SandboxAfterCleanup
    /\ envNetwork' = FALSE
    /\ envPkgs' = {}
    /\ okPkgs' = {}
    /\ file' = 0
    /\ installed' = InstalledAfterReset
    /\ Complete(c, ret[c], Append(ops[c], Event("cleanup", "ok")))
    /\ UNCHANGED << configNet, req, batch, snap, prev >>
    /\ UNCHANGED wd

\* cleanup() raises: nothing catches it, line 169 is skipped and the call
\* raises.  The environment may or may not be gone (gone tells which).
CleanupFault(c, f, gone) ==
    /\ pc[c] = "cleanup"
    /\ f \in Faults("cleanup")
    /\ sandbox' = (sandbox /\ ~gone)
    /\ envNetwork' = (envNetwork /\ sandbox')
    /\ envPkgs' = IF sandbox' THEN envPkgs ELSE {}
    /\ okPkgs' = IF sandbox' THEN okPkgs ELSE {}
    /\ file' = IF sandbox' THEN file ELSE 0
    /\ Complete(c, [ NoReturn EXCEPT !.kind = "raised", !.fault = f ],
                Append(ops[c], Event("cleanup", "fault")))
    /\ UNCHANGED << configNet, installed, req, batch, snap, prev >>
    /\ UNCHANGED wd

\* The caller takes the result of its call and is free to call again.
Return(c) ==
    /\ pc[c] = "done"
    /\ prev' = Summary(c)
    /\ pc' = [ pc EXCEPT ![c] = "idle" ]
    /\ req' = [ req EXCEPT ![c] = NoRequest ]
    /\ batch' = [ batch EXCEPT ![c] = <<>> ]
    /\ ops' = [ ops EXCEPT ![c] = <<>> ]
    /\ ret' = [ ret EXCEPT ![c] = NoReturn ]
    /\ snap' = [ snap EXCEPT ![c] = NoSnap ]
    /\ UNCHANGED << sandbox, envNetwork, configNet, installed, envPkgs,
                    okPkgs, file >>
    /\ UNCHANGED wd

(***************************************************************************)
(* Specifications.                                                         *)
(***************************************************************************)

\* One caller, one call at a time; cleanup() as the Provider documents it
\* (it returns).
Next ==
    \E c \in SeqCallers :
        \/ \E r \in Requests(c) : AllIdle /\ Execute(c, r)
        \/ AllIdle /\ Reset(c)
        \/ CreateDone(c)
        \/ \E f \in Faults("create") : CreateFault(c, f)
        \/ InstallDone(c)
        \/ \E f \in Faults("install"), part \in SUBSET Names(batch[c]) :
               InstallFault(c, f, part)
        \/ WriteDone(c)
        \/ \E f \in Faults("write_file") : WriteFault(c, f)
        \/ RunDone(c)
        \/ \E f \in Faults("run") : RunFault(c, f)
        \/ CleanupDone(c)
        \/ Return(c)

Spec == Init /\ [][Next]_vars

\* The same, with a cleanup() that may raise.
NextCleanupFault ==
    \/ Next
    \/ \E c \in SeqCallers, f \in Faults("cleanup"), gone \in BOOLEAN :
           CleanupFault(c, f, gone)

SpecCleanupFault == Init /\ [][NextCleanupFault]_vars

\* The requests of the concurrent specification: with and without a
\* package, the other parameters at their defaults (lines 64-67).
ConcurrentRequests(c) ==
    { r \in Requests(c) :
        /\ r.timeout = DefaultTimeout
        /\ r.install_packages \in { <<>>, <<"a">> }
        /\ ~r.allow_network
        /\ ~r.auto_terminate }

\* The faults of the concurrent specification: one per operation.
ConcurrentFaults(step) ==
    { f \in Faults(step) :
        /\ ~f.mentionsTimeout
        /\ f.type # "TimeoutError" }

\* Several callers: execute() and reset_sandbox() are coroutines sharing
\* SANDBOX_CLIENT and the tracking list with no lock, so a call may begin
\* while another one is suspended at an await.
NextConcurrent ==
    \E c \in Callers :
        \/ \E r \in ConcurrentRequests(c) : Execute(c, r)
        \/ Reset(c)
        \/ CreateDone(c)
        \/ \E f \in ConcurrentFaults("create") : CreateFault(c, f)
        \/ InstallDone(c)
        \/ \E f \in ConcurrentFaults("install"), part \in SUBSET Names(batch[c]) :
               InstallFault(c, f, part)
        \/ WriteDone(c)
        \/ \E f \in ConcurrentFaults("write_file") : WriteFault(c, f)
        \/ RunDone(c)
        \/ \E f \in ConcurrentFaults("run") : RunFault(c, f)
        \/ CleanupDone(c)
        \/ Return(c)

SpecConcurrent == Init /\ [][NextConcurrent]_vars

(***************************************************************************)
(* wait_for_docker() of test_sandbox.py: the retry loop that polls         *)
(* check_docker() before the sandbox tests start.                          *)
(***************************************************************************)

toolVars == << sandbox, envNetwork, configNet, installed, envPkgs, okPkgs,
               file, pc, req, batch, ops, ret, snap, prev >>

\* Largest max_retries the model passes to wait_for_docker().
MaxRetries == 4

\* The default retry_interval, in seconds.
RetryInterval == 5

RetryCounts == 0 .. MaxRetries
RetryIntervals == { 0, RetryInterval }

\* What one check_docker() call can meet: the docker command is missing
\* (FileNotFoundError, caught), `docker --version` fails, `docker info`
\* fails, both succeed, or subprocess.run raises something other than
\* FileNotFoundError (a docker file that may not be executed), which
\* check_docker() does not catch.
DockerStates ==
    { "not_found", "not_installed", "not_running", "running", "PermissionError" }

\* check_docker(): "raised" when the exception leaves the function.
CheckDocker(o) ==
    CASE o = "running" -> "True"
      [] o = "PermissionError" -> "raised"
      [] OTHER -> "False"

SleepsAfterAlways(i, max_retries) == TRUE

\* `if i < max_retries - 1` before the sleep.
SleepsAfter(i, max_retries) == i < max_retries - 1

\* `for i in range(max_retries)` at index i: the body runs, or the loop is
\* over and the function returns False.
Iterate(w, i) ==
    IF i < w.max_retries
    THEN [ w EXCEPT !.pc = "check", !.i = i ]
    ELSE [ w EXCEPT !.pc = "done", !.i = i, !.result = "False" ]

\* wait_for_docker(m, t) is called.
WaitForDocker(m, t) ==
    /\ wd.pc = "idle"
    /\ wd' = Iterate([ NoWait EXCEPT !.max_retries = m, !.retry_interval = t ], 0)
    /\ UNCHANGED toolVars

\* `await check_docker()` returns or raises.
CheckDone(o) ==
    /\ wd.pc = "check"
    /\ LET w == [ wd EXCEPT !.checks = @ + 1, !.last = o ]
       IN  CASE CheckDocker(o) = "True" ->
                  wd' = [ w EXCEPT !.pc = "done", !.result = "True" ]
             [] CheckDocker(o) = "raised" ->
                  wd' = [ w EXCEPT !.pc = "done", !.result = "raised" ]
             [] OTHER ->
                  LET f == [ w EXCEPT !.fails = @ + 1 ]
                  IN  IF SleepsAfter(wd.i, wd.max_retries)
                      THEN wd' = [ f EXCEPT !.pc = "sleep", !.sleeps = @ + 1,
                                            !.slept = @ + wd.retry_interval ]
                      ELSE wd' = Iterate(f, wd.i + 1)
    /\ UNCHANGED toolVars

\* `await asyncio.sleep(retry_interval)` returns.
SleepDone ==
    /\ wd.pc = "sleep"
    /\ wd' = Iterate(wd, wd.i + 1)
    /\ UNCHANGED toolVars

\* The caller has the result; wait_for_docker() can be called again.
WaitReturn ==
    /\ wd.pc = "done"
    /\ wd' = NoWait
    /\ UNCHANGED toolVars

NextWait ==
    \/ \E m \in RetryCounts, t \in RetryIntervals : WaitForDocker(m, t)
    \/ \E o \in DockerStates : CheckDone(o)
    \/ SleepDone
    \/ WaitReturn

SpecWait == Init /\ [][NextWait]_vars

\* check_docker() and asyncio.sleep() return: the event loop resumes the
\* coroutine after each await.
FairWait ==
    /\ WF_vars(\E o \in DockerStates : CheckDone(o))
    /\ WF_vars(SleepDone)

SpecWaitFair == SpecWait /\ FairWait

(***************************************************************************)
(* Properties.                                                             *)
(***************************************************************************)

\* Caller c holds the result of an execute() call.
ExecuteDone(c) == pc[c] = "done" /\ req[c].api = "execute"

\* Caller c holds the result of a reset_sandbox() call.
ResetDone(c) == pc[c] = "done" /\ req[c].api = "reset"

\* Caller c holds the result of the second of two execute() calls in a row
\* with no reset in between (neither reset_sandbox() nor an auto-terminate).
SecondInARow(c) ==
    /\ ExecuteDone(c)
    /\ prev.api = "execute"
    /\ ~prev.auto_terminate

\* The same, both calls with the same package list naming a package, and
\* against one environment: the first call left its environment in place.
SamePackagesTwice(c) ==
    /\ SecondInARow(c)
    /\ prev.sandboxAfter
    /\ prev.install_packages = req[c].install_packages
    /\ ParsePackages(req[c].install_packages) # <<>>

\* C1 as stated: two execute() calls in a row with the same package list
\* against one environment send exactly one install command between them,
\* and the second call sends none.
C1_ExactlyOneInstall ==
    \A c \in Callers :
        SamePackagesTwice(c) =>
            /\ Summary(c).installs = 0
            /\ prev.installs + Summary(c).installs = 1

\* C1 amended: when the install command of the first call did not fault, the
\* second call computes an empty toInstall and sends no install command, so
\* at most one install command is sent across both calls; when it faulted,
\* the second call sends the install command again.
C1_IdempotentInstall ==
    \A c \in Callers :
        SamePackagesTwice(c) =>
            /\ prev.installFaults = 0 =>
                   /\ batch[c] = <<>>
                   /\ Summary(c).installs = 0
                   /\ prev.installs + Summary(c).installs <= 1
            /\ prev.installFaults > 0 =>
                   /\ batch[c] # <<>>
                   /\ Summary(c).installs = 1

\* C1 witness: the first call installed, the second call sent no install.
C1_Witness ==
    \E c \in Callers :
        /\ SamePackagesTwice(c)
        /\ prev.installs = 1
        /\ prev.installFaults = 0
        /\ Summary(c).installs = 0
        /\ ret[c].kind = "success"

\* C2: when execute() returns from a call with auto_terminate set, whatever
\* the path (success, creation fault, install failure, write fault, run fault
\* or run timeout), the reset has been performed: cleanup() was called and
\* returned if an environment was there, no handle exists, the tracking list
\* is empty, and a following reset_sandbox() finds nothing to clean.
C2_GuaranteedTeardown ==
    \A c \in Callers :
        /\ (ExecuteDone(c) /\ req[c].auto_terminate) =>
               /\ ~sandbox
               /\ installed = <<>>
               /\ ~ResetCleans(sandbox)
               /\ (snap[c].sandbox \/ Count(ops[c], "create", "ok") = 1) =>
                      /\ Count(ops[c], "cleanup", "call") = 1
                      /\ ops[c][Len(ops[c])] = Event("cleanup", "ok")
        /\ (ResetDone(c) /\ prev.api = "execute" /\ prev.auto_terminate) =>
               /\ ops[c] = <<>>
               /\ ~sandbox
               /\ installed = <<>>

\* C2 witness: an auto-terminate call whose run command faulted has
\* returned, after packages had been installed in its environment.
C2_Witness ==
    \E c \in Callers :
        /\ ExecuteDone(c)
        /\ req[c].auto_terminate
        /\ ret[c].fault.step = "run"
        /\ Count(ops[c], "install", "ok") = 1
        /\ Count(ops[c], "cleanup", "ok") = 1

\* C3 as stated: execute() returns a result and never raises, whatever raises
\* in the Provider: create, install, write, run, or the cleanup of the
\* auto-terminate teardown.
C3_NeverRaises ==
    \A c \in Callers : ExecuteDone(c) => ret[c].kind # "raised"

\* C4 as stated: across two execute() calls in a row with no reset in
\* between, the first beginning without an environment, the Provider's
\* create() is called exactly once.
C4_ExactlyOneCreate ==
    \A c \in Callers :
        (SecondInARow(c) /\ prev.creates = 1) =>
            prev.creates + Summary(c).creates = 1

\* C4 amended: of two execute() calls in a row with no reset in between, the
\* second does not call create() when the first left an environment in
\* place, so that create() is called at most once across both and both use
\* that environment; when the creation of the first call faulted no handle
\* exists and the second call calls create() again.
C4_EnvironmentReuse ==
    \A c \in Callers :
        SecondInARow(c) =>
            /\ prev.sandboxAfter =>
                   /\ Summary(c).creates = 0
                   /\ prev.creates + Summary(c).creates <= 1
                   /\ snap[c].sandbox
            /\ ~prev.sandboxAfter =>
                   /\ prev.creates = 1
                   /\ Summary(c).creates = 1

\* C4 witness: the first call created the environment and the second call,
\* which succeeded, created none.
C4_Witness ==
    \E c \in Callers :
        /\ SecondInARow(c)
        /\ prev.creates = 1
        /\ prev.sandboxAfter
        /\ Summary(c).creates = 0
        /\ ret[c].kind = "success"

\* C5: the network posture of the environment is the allow_network of the
\* request that created it, and no step changes it while the environment
\* lives, whatever allow_network later requests carry.
C5_NetworkPostureFreeze ==
    [][ /\ (sandbox /\ sandbox') => envNetwork' = envNetwork
        /\ (~sandbox /\ sandbox') =>
               \E c \in Callers :
                   /\ pc[c] = "create"
                   /\ pc'[c] # "create"
                   /\ envNetwork' = req[c].allow_network ]_vars

\* C5 witness: a call asking for the network has succeeded in an
\* environment created without it.
C5_Witness ==
    \E c \in Callers :
        /\ ExecuteDone(c)
        /\ ret[c].kind = "success"
        /\ snap[c].sandbox
        /\ sandbox
        /\ req[c].allow_network
        /\ ~envNetwork

\* C6: every name in the tracking list was part of an install command that
\* completed without fault against the environment that is live now; the
\* list is empty whenever no handle exists, and when an environment is
\* created.
C6_InstalledSound ==
    /\ Names(installed) \subseteq okPkgs
    /\ okPkgs \subseteq envPkgs
    /\ ~sandbox => installed = <<>>
    /\ \A c \in Callers : pc[c] = "create" /\ ~sandbox => installed = <<>>

\* C6 witness: a call that began with nothing tracked has returned with
\* names tracked, while the environment holds a name, left by a failed
\* batch, that is not tracked.
C6_Witness ==
    /\ sandbox
    /\ installed # <<>>
    /\ envPkgs # okPkgs
    /\ \E c \in Callers : ExecuteDone(c) /\ snap[c].installed = <<>>

\* C7 as stated: when the install command of an execute() call raises, the
\* tracking list after the call equals the tracking list before the call.
C7_InstalledUnchanged ==
    \A c \in Callers :
        (ExecuteDone(c) /\ ret[c].kind = "install_error") =>
            installed = snap[c].installed

\* C7 amended: when the install command of an execute() call raises, none of
\* the batch's names is added: the tracking list after the call equals the
\* list before the call, or is empty when the call's auto-terminate tore the
\* environment down.
C7_AllOrNothingInstall ==
    \A c \in Callers :
        /\ (ExecuteDone(c) /\ ret[c].kind = "install_error") =>
               installed =
                   IF req[c].auto_terminate THEN <<>> ELSE snap[c].installed
        /\ (pc[c] = "cleanup" /\ ret[c].kind = "install_error") =>
               installed = snap[c].installed

\* C7 witness: the install command raised after the Provider installed one
\* name of a batch of two; neither name is tracked.
C7_Witness ==
    \E c \in Callers :
        /\ ExecuteDone(c)
        /\ ret[c].kind = "install_error"
        /\ ~req[c].auto_terminate
        /\ Len(batch[c]) = 2
        /\ snap[c].installed = <<>>
        /\ Names(batch[c]) \cap envPkgs # {}
        /\ Names(batch[c]) \cap Names(installed) = {}

\* C8 as stated: whenever the run command raises because the deadline
\* passed, execute() returns the timed-out failure.
C8_TimeoutClassified ==
    \A c \in Callers :
        (ExecuteDone(c) /\ ret[c].fault.step = "run"
                        /\ ret[c].fault.type = "TimeoutError") =>
            ret[c].kind = "timeout"

\* The program state is as it was when the call of c began.
SameAsBegan(c) ==
    /\ sandbox = snap[c].sandbox
    /\ installed = snap[c].installed
    /\ configNet = snap[c].configNet

\* C9: reset_sandbox() with a handle calls cleanup() and returns with the
\* handle absent and the tracking list empty, the two cleared in one step;
\* without a handle it calls nothing, changes nothing and does not raise.
C9_Reset ==
    /\ [](\A c \in Callers :
            /\ (ResetDone(c) /\ ~snap[c].sandbox) =>
                   /\ ops[c] = <<>>
                   /\ SameAsBegan(c)
                   /\ ret[c].kind = "reset"
            /\ (ResetDone(c) /\ snap[c].sandbox) =>
                   /\ ops[c] = << Event("cleanup", "call"),
                                  Event("cleanup", "ok") >>
                   /\ ~sandbox
                   /\ installed = <<>>
                   /\ ret[c].kind = "reset"
            /\ (pc[c] = "cleanup" /\ req[c].api = "reset") => SameAsBegan(c))
    /\ [][ /\ (sandbox /\ ~sandbox') => installed' = <<>>
           /\ (installed # <<>> /\ installed' = <<>>) => ~sandbox' ]_vars

\* C9 witness: a reset_sandbox() that found a handle and tracked names has
\* returned.
C9_Witness ==
    \E c \in Callers :
        /\ ResetDone(c)
        /\ snap[c].sandbox
        /\ snap[c].installed # <<>>
        /\ ~sandbox

\* Order of the Provider operations within one call.
Rank(op) ==
    CASE op = "create" -> 1
      [] op = "install" -> 2
      [] op = "write_file" -> 3
      [] op = "run" -> 4
      [] op = "cleanup" -> 5

\* C10: within one execute() call the Provider operations are issued in the
\* order create, install, write, run, cleanup, each after the one before it
\* has completed; the run command only after the write of the call returned,
\* and the write only after the install command (if any) returned.
C10_StepOrdering ==
    \A c \in Callers :
        LET log == ops[c] IN
        \A i \in DOMAIN log :
            /\ (log[i].ev = "call" /\ i > 1) =>
                   /\ log[i - 1].ev # "call"
                   /\ Rank(log[i - 1].op) < Rank(log[i].op)
            /\ log[i].ev # "call" =>
                   /\ i > 1
                   /\ log[i - 1].ev = "call"
                   /\ log[i - 1].op = log[i].op
            /\ (log[i].ev = "call" /\ log[i].op = "run") =>
                   /\ i > 1
                   /\ log[i - 1].op = "write_file"
                   /\ log[i - 1].ev = "ok"
            /\ (log[i].ev = "call" /\ log[i].op = "write_file") =>
                   /\ log[i].code = req[c].code
                   /\ i > 1 => /\ log[i - 1].ev = "ok"
                               /\ log[i - 1].op \in {"create", "install"}
                   /\ batch[c] # <<>> =>
                          /\ i > 1
                          /\ log[i - 1].op = "install"
            /\ (log[i].ev = "call" /\ log[i].op = "install") =>
                   (i > 1 => log[i - 1] = Event("create", "ok"))

\* C10 witness: a call has gone through all five operations.
C10_Witness ==
    \E c \in Callers :
        /\ ExecuteDone(c)
        /\ Len(ops[c]) = 10
        /\ ret[c].kind = "success"

\* C13: when the install command of an execute() call raises (a failure or
\* a timeout, whatever its text), the call returns the install failure, never
\* the timed-out or the generic failure, and issues neither the write of the
\* code nor the run command.
C13_InstallShortCircuit ==
    \A c \in Callers :
        Count(ops[c], "install", "fault") > 0 =>
            /\ pc[c] \in {"cleanup", "done"}
            /\ ret[c].kind = "install_error"
            /\ Count(ops[c], "write_file", "call") = 0
            /\ Count(ops[c], "run", "call") = 0

\* C13 witness: an install command that timed out, its text saying so.
C13_Witness ==
    \E c \in Callers :
        /\ ExecuteDone(c)
        /\ ret[c].fault.step = "install"
        /\ ret[c].fault.type = "TimeoutError"
        /\ ret[c].fault.mentionsTimeout
        /\ ret[c].kind = "install_error"

\* C14 as stated: the timed-out failure is returned only when the run
\* command exceeded its deadline; a fault of the creation or of the write is
\* never returned as timed out, whatever its text.
C14_KindByOrigin ==
    \A c \in Callers :
        (ExecuteDone(c) /\ ret[c].kind = "timeout") =>
            /\ ret[c].fault.step = "run"
            /\ ret[c].fault.type = "TimeoutError"

\* C15 as stated: the network posture named in the message of a successful
\* execute() is the posture of the environment the code ran in.
C15_MessagePosture ==
    \A c \in Callers :
        (ExecuteDone(c) /\ ret[c].kind = "success") =>
            ret[c].msgNetwork = ret[c].envNet

\* The Provider operations execute() calls.
ProviderOps == {"create", "install", "write_file", "run"}

\* C16: within one execute() call each Provider operation (create, install
\* command, write, run command) is called at most once, whether it returns
\* or raises.
C16_NoRetries ==
    \A c \in Callers : \A op \in ProviderOps :
        Count(ops[c], op, "call") <= 1

\* C16 witness: calls that faulted at the run command after every earlier
\* operation was called once.
C16_Witness ==
    \E c \in Callers :
        /\ ExecuteDone(c)
        /\ ret[c].fault.step = "run"
        /\ \A op \in ProviderOps : Count(ops[c], op, "call") = 1

\* C17: every install command is issued with timeout 120 whatever the
\* request's timeout, at most one per call and for the whole of toInstall;
\* every run command is issued with the request's timeout.
C17_TimeoutBudgets ==
    \A c \in Callers :
        /\ Count(ops[c], "install", "call") <= 1
        /\ \A i \in DOMAIN ops[c] :
               /\ (ops[c][i].op = "install" /\ ops[c][i].ev = "call") =>
                      /\ ops[c][i].timeout = 120
                      /\ ops[c][i].pkgs = batch[c]
               /\ (ops[c][i].op = "run" /\ ops[c][i].ev = "call") =>
                      ops[c][i].timeout = req[c].timeout

\* C17 witness: a call with a timeout of 5 seconds has installed and run.
C17_Witness ==
    \E c \in Callers :
        /\ ExecuteDone(c)
        /\ req[c].timeout = ShortTimeout
        /\ Count(ops[c], "install", "ok") = 1
        /\ Count(ops[c], "run", "ok") = 1

\* C18 as stated: the network flag of the global sandbox configuration has
\* the same value after an execute() call as before it.
C18_ConfigUntouched ==
    \A c \in Callers : ExecuteDone(c) => configNet = snap[c].configNet

NoDuplicates(l) == \A i, j \in DOMAIN l : l[i] = l[j] => i = j

\* C19 as stated: no name is in the tracking list more than once, and no
\* install command names a package twice or names a tracked package.
C19_ListIsSet ==
    /\ NoDuplicates(installed)
    /\ \A c \in Callers :
           pc[c] = "install" =>
               /\ NoDuplicates(batch[c])
               /\ Names(batch[c]) \cap Names(installed) = {}

\* The phases of execute() that use the environment.
Phases == {"install", "write_file", "run"}

\* C11 as stated: the install, write and run phases of two execute() calls
\* issued concurrently never overlap, and the code a call's run command
\* executed is the code of that call's request.
C11_Serialized ==
    /\ \A c, d \in Callers :
           (c # d /\ pc[c] \in Phases) => pc[d] \notin Phases
    /\ \A c \in Callers :
           (ExecuteDone(c) /\ ret[c].kind = "success") =>
               ret[c].ranCode = req[c].code

\* C12 as stated: create() is never called while a handle exists or while
\* another creation is in flight.
C12_OneEnvironment ==
    \A c \in Callers :
        pc[c] = "create" =>
            /\ ~sandbox
            /\ \A d \in Callers : d # c => pc[d] # "create"

\* C20: wait_for_docker(max_retries, retry_interval) always terminates; it
\* calls check_docker at most max_retries times; it returns True at the
\* first successful check, with no check or sleep after it; it sleeps only
\* between two attempts, never after the last one, so at most
\* max_retries - 1 times; it returns False exactly when all max_retries
\* checks failed.
C20_Bounded ==
    /\ wd.checks <= wd.max_retries
    /\ wd.sleeps <= wd.checks
    /\ wd.max_retries > 0 => wd.sleeps <= wd.max_retries - 1
    /\ wd.slept = wd.sleeps * wd.retry_interval
    /\ wd.pc = "sleep" =>
          /\ wd.checks < wd.max_retries
          /\ wd.sleeps = wd.checks
          /\ wd.last # "running"
    /\ wd.result = "True" =>
          /\ wd.pc = "done"
          /\ wd.last = "running"
          /\ wd.checks = wd.fails + 1
          /\ wd.sleeps = wd.fails
    /\ wd.result = "False" <=> (wd.pc = "done" /\ wd.fails = wd.max_retries)
    /\ wd.result = "False" => wd.checks = wd.max_retries

C20_WaitForDocker ==
    /\ []C20_Bounded
    /\ (wd.pc # "idle") ~> (wd.pc = "done")

C20_Witness ==
    /\ wd.pc = "done"
    /\ wd.result = "False"
    /\ wd.max_retries >= 2
    /\ wd.checks = wd.max_retries
    /\ wd.sleeps = wd.max_retries - 1

====
